---- MODULE Spec2Model ----
(***************************************************************************)
(* Weight container (ShapedWeights) and weight transposition               *)
(* (transposeWeights / transpose4DWeights) of the ONNX importer.           *)
(*                                                                         *)
(* Memory is a heap `mem` from pointers to element arrays (0-based         *)
(* functions); a ShapedWeights is a view [type, values, shape, name] whose *)
(* `values` is a pointer into that heap.  nvinfer1::Dims is                *)
(* [nbDims, d[0..MAX_DIMS-1]], nvinfer1::Permutation is order[0..MAX_DIMS-1]*)
(***************************************************************************)
EXTENDS Integers, Sequences, FiniteSets, TLC

\* ---------------------------------------------------------------- bounds
MaxRank == 5
MaxDim == 3
MaxCount == 8
MaxOps == 2
MaxLines == 2
MaxEdge == 3
MaxTextLines == 3

\* ------------------------------------------------------- program constants
MAX_DIMS == 8

NULL == "nullptr"
FLOAT == "FLOAT"
FLOAT16 == "FLOAT16"
INT32 == "INT32"
kWARNING == "kWARNING"
kINFO == "kINFO"

DataTypes == {FLOAT, FLOAT16, INT32}

Slots == 0 .. (MAX_DIMS - 1)

\* nvinfer1::Dims{n, {a, b, ...}}: aggregate initialisation, the slots that
\* are not named are zero
MkDims(s) ==
    [nbDims |-> Len(s), d |-> [i \in Slots |-> IF i < Len(s) THEN s[i + 1] ELSE 0]]

\* nvinfer1::Permutation{a, b, ...}
MkPerm(s) ==
    [order |-> [i \in Slots |-> IF i < Len(s) THEN s[i + 1] ELSE 0]]

\* the ShapedWeights(type, values, shape) constructor; name is set later
ShapedWeightsCtor(type_, values_, shape_) ==
    [type |-> type_, values |-> values_, shape |-> shape_, name |-> NULL]

\* ShapedWeights::setName
setName(w, name_) ==
    [w EXCEPT !.name = name_]

\* ShapedWeights::getName
getName(w) ==
    w.name

\* ------------------------------------------------------------------ count
RECURSIVE countLoop(_, _, _)
countLoop(shape, i, c) ==
    IF i < shape.nbDims THEN countLoop(shape, i + 1, c * shape.d[i]) ELSE c

\* count() with the emptiness test on the pointer alone
count_NullIsEmpty(w) ==
    IF w.values = NULL \/ w.shape.nbDims <= 0
    THEN 0
    ELSE countLoop(w.shape, 0, 1)

\* ShapedWeights::count
count(w) ==
    IF w.values = NULL /\ w.shape.nbDims <= 0
    THEN 0
    ELSE countLoop(w.shape, 0, 1)

\* ------------------------------------------------------ transpose4DWeights
\* the array a pointer designates; a null or unknown pointer designates no
\* element at all, so every access through it is out of bounds
Buf(m, p) ==
    IF p \in DOMAIN m THEN m[p] ELSE << >>

\* the padding put behind the axes instead of in front of them
ExpandShape_PadRight(shape, nbDims) ==
    [k \in 0 .. 3 |-> IF k < nbDims THEN shape.d[k] ELSE 1]

\* expanded_original_shape / expanded_new_shape after the padding loop
ExpandShape(shape, nbDims) ==
    LET pad == 4 - nbDims
    IN  [k \in 0 .. 3 |-> IF k >= pad /\ k - pad < nbDims THEN shape.d[k - pad] ELSE 1]

\* the padding loop without the pad offset on the permutation entries
ExpandPerm_NoPad(perm, nbDims) ==
    LET pad == 4 - nbDims
    IN  [k \in 0 .. 3 |-> IF k >= pad /\ k - pad < nbDims THEN perm.order[k - pad] ELSE k]

\* expanded_perm after the padding loop
ExpandPerm(perm, nbDims) ==
    LET pad == 4 - nbDims
    IN  [k \in 0 .. 3 |-> IF k >= pad /\ k - pad < nbDims THEN perm.order[k - pad] + pad ELSE k]

\* strides left at their initial value {1, 1, 1, 1}
StrideAt_Unit(es, i) ==
    IF i >= 3 THEN 1 ELSE 1

\* strides that multiply by the axis' own extent instead of the next one's
RECURSIVE StrideAt_OwnExtent(_, _)
StrideAt_OwnExtent(es, i) ==
    IF i >= 3 THEN 1 ELSE es[i] * StrideAt_OwnExtent(es, i + 1)

\* src_strides / dst_strides: stride[3] = 1, stride[i] = d[i+1] * stride[i+1]
RECURSIVE StrideAt(_, _)
StrideAt(es, i) ==
    IF i >= 3 THEN 1 ELSE es[i + 1] * StrideAt(es, i + 1)

Strides(es) ==
    [i \in 0 .. 3 |-> StrideAt(es, i)]

\* sum over i in 0..3 of coord[i] * strides[i]
FlatIndex(coord, strides) ==
    coord[0] * strides[0] + coord[1] * strides[1] + coord[2] * strides[2] + coord[3] * strides[3]

\* no coordinate: the four nested loops are over
LoopDone == << >>

\* the coordinate the four nested loops visit after coord, or LoopDone when
\* the loops are over (w runs fastest, n slowest)
NextCoord(coord, es) ==
    IF coord[3] + 1 < es[3] THEN [coord EXCEPT ![3] = @ + 1]
    ELSE IF coord[2] + 1 < es[2] THEN [coord EXCEPT ![2] = @ + 1, ![3] = 0]
    ELSE IF coord[1] + 1 < es[1] THEN [coord EXCEPT ![1] = @ + 1, ![2] = 0, ![3] = 0]
    ELSE IF coord[0] + 1 < es[0] THEN [coord EXCEPT ![0] = @ + 1, ![1] = 0, ![2] = 0, ![3] = 0]
    ELSE LoopDone

\* the first coordinate the loops visit: none when some extent is <= 0
FirstCoord(es) ==
    IF \A k \in 0 .. 3 : es[k] > 0 THEN [k \in 0 .. 3 |-> 0] ELSE LoopDone

\* the permutation applied the other way: dst_coord[order[i]] = src_coord[i]
DstCoord_Scatter(src_coord, eperm) ==
    [j \in 0 .. 3 |-> IF \E i \in 0 .. 3 : eperm[i] = j
                      THEN src_coord[CHOOSE i \in 0 .. 3 : eperm[i] = j]
                      ELSE 0]

\* dst_coord[i] = src_coord[expanded_perm.order[i]]
DstCoord(src_coord, eperm) ==
    [i \in 0 .. 3 |-> IF eperm[i] \in 0 .. 3 THEN src_coord[eperm[i]] ELSE 0]

\* the loop body with the assignment reversed: src[src_index] = dst[dst_index]
GatherBody_IntoSource(src, dst, src_index, dst_index, coordOk, st) ==
    LET s == Buf(st.mem, src)
        t == Buf(st.mem, dst)
        ok == coordOk /\ src_index \in DOMAIN s /\ dst_index \in DOMAIN t
    IN  [mem |-> IF ok THEN [st.mem EXCEPT ![src][src_index] = t[dst_index]] ELSE st.mem,
         writes |-> Append(st.writes, dst_index),
         ub |-> st.ub \/ ~ok]

\* the loop body, dst[dst_index] = src[src_index], on
\* st = [mem, writes, ub]: an access outside either array is undefined
\* behaviour and is recorded in ub
GatherBody(src, dst, src_index, dst_index, coordOk, st) ==
    LET s == Buf(st.mem, src)
        t == Buf(st.mem, dst)
        ok == coordOk /\ src_index \in DOMAIN s /\ dst_index \in DOMAIN t
    IN  [mem |-> IF ok THEN [st.mem EXCEPT ![dst][dst_index] = s[src_index]] ELSE st.mem,
         writes |-> Append(st.writes, dst_index),
         ub |-> st.ub \/ ~ok]

RECURSIVE GatherLoop(_, _, _, _, _, _, _, _)
GatherLoop(src, dst, es, eperm, src_strides, dst_strides, coord, st) ==
    IF coord = LoopDone THEN st
    ELSE LET dst_coord == DstCoord(coord, eperm)
             src_index == FlatIndex(coord, src_strides)
             dst_index == FlatIndex(dst_coord, dst_strides)
             coordOk == \A i \in 0 .. 3 : eperm[i] \in 0 .. 3
             done == GatherBody(src, dst, src_index, dst_index, coordOk, st)
         IN  \* the loop is not followed past an access outside the arrays
             IF done.ub THEN done
             ELSE GatherLoop(src, dst, es, eperm, src_strides, dst_strides,
                             NextCoord(coord, es), done)

\* the padding computed from the source's rank instead of the destination's
transpose4DWeights_SourceRank(weights, perm, result, m) ==
    LET nbDims == weights.shape.nbDims
        padOk == nbDims <= 4
        eos == ExpandShape(weights.shape, nbDims)
        ens == ExpandShape(result.shape, nbDims)
        eperm == ExpandPerm(perm, nbDims)
        st0 == [mem |-> m, writes |-> << >>, ub |-> ~padOk]
    IN  IF ~padOk THEN st0
        ELSE GatherLoop(weights.values, result.values, eos, eperm,
                        Strides(eos), Strides(ens), FirstCoord(eos), st0)

\* transpose4DWeights<DType>: returns [mem, writes, ub]
transpose4DWeights(weights, perm, result, m) ==
    LET nbDims == result.shape.nbDims
        padOk == nbDims <= 4
        eos == ExpandShape(weights.shape, nbDims)
        ens == ExpandShape(result.shape, nbDims)
        eperm == ExpandPerm(perm, nbDims)
        st0 == [mem |-> m, writes |-> << >>, ub |-> ~padOk]
    IN  IF ~padOk THEN st0
        ELSE GatherLoop(weights.values, result.values, eos, eperm,
                        Strides(eos), Strides(ens), FirstCoord(eos), st0)

\* ------------------------------------------------------- transposeWeights
\* the loop that computes new_shape and stores it into result->shape.d
PermuteShapeInto(weights, perm, result) ==
    LET shape == weights.shape
        nbDims == shape.nbDims
    IN  [result EXCEPT !.shape.d =
            [i \in Slots |-> IF i < nbDims /\ perm.order[i] \in Slots
                             THEN shape.d[perm.order[i]]
                             ELSE @[i]]]

\* the first nbDims entries of perm.order, as LOG_WARNING prints them
PermDims(perm, nbDims) ==
    [i \in 1 .. nbDims |-> perm.order[i - 1]]

\* LOG(msg, severity): one call of ctx->logger().log(severity, text)
LOG(lg, msg, severity) ==
    Append(lg, [severity |-> severity, msg |-> msg])

\* the warning sent with the severity of LOG_INFO
LOG_WARNING_AsInfo(lg, msg) ==
    LOG(lg, msg, kINFO)

\* LOG_WARNING(msg)
LOG_WARNING(lg, msg) ==
    LOG(lg, msg, kWARNING)

\* a dispatch that also takes INT32
IsTransposableType_WithInt32(type) ==
    type = FLOAT \/ type = FLOAT16 \/ type = INT32

\* the element types transposeWeights dispatches to transpose4DWeights
IsTransposableType(type) ==
    type = FLOAT \/ type = FLOAT16

\* the rank test off by one, upwards and downwards
IsTransposableRank_UpTo5(nbDims) ==
    nbDims <= 5

IsTransposableRank_Below4(nbDims) ==
    nbDims < 4

\* the rank test in front of the dispatch
IsTransposableRank(nbDims) ==
    nbDims <= 4

\* transposeWeights(weights, perm, result, ctx) on heap m and logger lg:
\* [ret, result, mem, log, writes, ub]
transposeWeights(weights, perm, result, m, lg) ==
    LET nbDims == weights.shape.nbDims
        shapeOk == nbDims <= MAX_DIMS /\ \A i \in Slots : i < nbDims => perm.order[i] \in Slots
        result1 == PermuteShapeInto(weights, perm, result)
        fail == [ret |-> FALSE, result |-> result1, mem |-> m, log |-> lg,
                 writes |-> << >>, ub |-> ~shapeOk]
    IN  IF IsTransposableRank(nbDims)
        THEN IF IsTransposableType(weights.type)
             THEN LET g == transpose4DWeights(weights, perm, result1, m)
                  IN  [ret |-> TRUE,
                       result |-> setName(result1, getName(weights)),
                       mem |-> g.mem,
                       log |-> LOG_WARNING(lg, [name |-> getName(weights),
                                                perm |-> PermDims(perm, nbDims)]),
                       writes |-> g.writes,
                       ub |-> g.ub \/ ~shapeOk]
             ELSE fail
        ELSE fail

\* ------------------------------------------------------------ input sets
\* a source array of n elements, element k holding the value k
Ramp(n) ==
    [k \in 0 .. (n - 1) |-> k]

\* a destination array of n elements before the call, pre-filled with -1
Untouched(n) ==
    [k \in 0 .. (n - 1) |-> -1]

RECURSIVE SeqProduct(_, _)
SeqProduct(s, i) ==
    IF i > Len(s) THEN 1 ELSE s[i] * SeqProduct(s, i + 1)

\* static shapes of rank r: at most one dimension is 0 and the others
\* multiply to at most MaxCount
Shapes(r) ==
    {s \in [1 .. r -> 0 .. MaxDim] :
        /\ Cardinality({i \in 1 .. r : s[i] = 0}) <= 1
        /\ SeqProduct([i \in 1 .. r |-> IF s[i] = 0 THEN 1 ELSE s[i]], 1) <= MaxCount}

\* the shape of the documented identity scenario
ExampleShapes ==
    {<<1, 3, 4, 4>>}

IsBijection(p, r) ==
    /\ \A i \in 1 .. r : p[i] \in 0 .. (r - 1)
    /\ \A i, j \in 1 .. r : p[i] = p[j] => i = j

\* axis permutations of rank r: all of them up to rank 4, three of them above
Perms(r) ==
    IF r <= 4
    THEN {p \in [1 .. r -> 0 .. (r - 1)] : IsBijection(p, r)}
    ELSE {[i \in 1 .. r |-> i - 1], [i \in 1 .. r |-> r - i], [i \in 1 .. r |-> i % r]}

Permuted(s, p) ==
    [i \in 1 .. Len(s) |-> s[p[i] + 1]]

\* the permutation that undoes perm on the first r axes
InversePerm(perm, r) ==
    [order |-> [i \in Slots |->
        IF i < r /\ (\E j \in 0 .. (r - 1) : perm.order[j] = i)
        THEN CHOOSE j \in 0 .. (r - 1) : perm.order[j] = i
        ELSE 0]]

\* ------------------------------------------------------------------ state
VARIABLES
    weights,   \* the source ShapedWeights
    perm,      \* the nvinfer1::Permutation handed to transposeWeights
    result,    \* the destination ShapedWeights
    back,      \* the destination of the inverse transposition
    mem,       \* heap: pointer -> element array
    log,       \* what ctx->logger() received, in order
    calls,     \* history: one record per transposeWeights call made
    pc,        \* position of the importing caller
    obj,       \* the ShapedWeights the container operations act on
    out,       \* history: the container operations applied to obj
    env,       \* what a run is given: command line, files, outcomes of SDK calls
    prog,      \* the local variables of the routine that is running
    trace      \* history: the external calls the routine made, in order

vars == <<weights, perm, result, back, mem, log, calls, pc, obj, out, env, prog, trace>>

\* the variables of the command-line tool, the driver example and the text
\* filters, which the importer's operations leave alone
runVars == <<env, prog, trace>>

\* no run in progress
NoRun == [kind |-> "none"]

NoWeights == ShapedWeightsCtor(FLOAT, NULL, MkDims(<< >>))

\* a caller's temporary weights of a type and shape, its buffer at pointer p
TempWeights(type, shape, p, name_) ==
    setName(ShapedWeightsCtor(type, p, shape), name_)

Init ==
    \E r \in 0 .. MaxRank :
      \E s \in Shapes(r) \cup {e \in ExampleShapes : Len(e) = r},
         p \in Perms(r), t \in DataTypes, aliased \in BOOLEAN :
        \E rs \in {s, Permuted(s, p)} :
          /\ aliased => t = FLOAT
          /\ weights = TempWeights(t, MkDims(s), "src", "W")
          /\ perm = MkPerm(p)
          /\ result = TempWeights(t, MkDims(rs), IF aliased THEN "src" ELSE "dst", "R")
          /\ back = NoWeights
          /\ mem = [src |-> Ramp(SeqProduct(s, 1)),
                    dst |-> Untouched(SeqProduct(rs, 1)),
                    bak |-> Untouched(SeqProduct(s, 1))]
          /\ log = << >>
          /\ calls = << >>
          /\ pc = "start"
          /\ obj = NoWeights
          /\ out = << >>
          /\ env = NoRun
          /\ prog = NoRun
          /\ trace = << >>

\* the history record of one call
CallRecord(w, p, before, m, lg, r) ==
    [weights |-> w, perm |-> p, before |-> before, after |-> r.result,
     memBefore |-> m, memAfter |-> r.mem, logBefore |-> lg, logAfter |-> r.log,
     ret |-> r.ret, writes |-> r.writes, ub |-> r.ub]

\* the importer transposes weights into result
Transpose ==
    /\ pc = "start"
    /\ LET r == transposeWeights(weights, perm, result, mem, log)
       IN  /\ result' = r.result
           /\ mem' = r.mem
           /\ log' = r.log
           /\ calls' = Append(calls, CallRecord(weights, perm, result, mem, log, r))
    /\ pc' = "called"
    /\ UNCHANGED <<weights, perm, back, obj, out, runVars>>

\* the same call, made a second time with the same arguments
Retry ==
    /\ pc = "called"
    /\ LET r == transposeWeights(weights, perm, result, mem, log)
       IN  /\ result' = r.result
           /\ mem' = r.mem
           /\ log' = r.log
           /\ calls' = Append(calls, CallRecord(weights, perm, result, mem, log, r))
    /\ pc' = "retried"
    /\ UNCHANGED <<weights, perm, back, obj, out, runVars>>

\* after a successful call, the transposed weights are transposed with the
\* inverse permutation into a third buffer shaped like the transposed ones
TransposeBack ==
    /\ pc = "called"
    /\ calls[1].ret
    /\ LET b == TempWeights(result.type, result.shape, "bak", "B")
           ip == InversePerm(perm, weights.shape.nbDims)
           r == transposeWeights(result, ip, b, mem, log)
       IN  /\ back' = r.result
           /\ mem' = r.mem
           /\ log' = r.log
           /\ calls' = Append(calls, CallRecord(result, ip, b, mem, log, r))
    /\ pc' = "back"
    /\ UNCHANGED <<weights, perm, result, obj, out, runVars>>

Next ==
    \/ Transpose
    \/ Retry
    \/ TransposeBack

Spec == Init /\ [][Next]_vars

\* ------------------------------------------------- the weight container
\* ShapedWeights::empty(type)
empty(type) ==
    ShapedWeightsCtor(type, NULL, MkDims(<< >>))

\* the default constructor: values(nullptr), shape{0}; type is not
\* initialised, so it is any value
ShapedWeightsDefault(anyType) ==
    [type |-> anyType, values |-> NULL, shape |-> MkDims(<< >>), name |-> NULL]

\* ShapedWeights::operator bool
AsBool(w) ==
    w.values # NULL

\* shapes handed to the constructor: every static shape up to MaxRank, the
\* rank-0 shape, and the invalid shape of rank -1
CtorShapes ==
    {MkDims(s) : s \in UNION {[1 .. r -> 0 .. MaxDim] : r \in 0 .. MaxRank}}
        \cup {[nbDims |-> -1, d |-> [i \in Slots |-> 0]]}

InitWeights ==
    /\ \/ \E t \in DataTypes : obj = ShapedWeightsDefault(t)
       \/ \E t \in DataTypes : obj = empty(t)
       \/ \E t \in DataTypes, v \in {NULL, "src"}, sh \in CtorShapes :
            obj = ShapedWeightsCtor(t, v, sh)
    /\ out = << >>
    /\ weights = NoWeights
    /\ perm = MkPerm(<< >>)
    /\ result = NoWeights
    /\ back = NoWeights
    /\ mem = << >>
    /\ log = << >>
    /\ calls = << >>
    /\ pc = "container"
    /\ env = NoRun
    /\ prog = NoRun
    /\ trace = << >>

\* obj.count()
Count ==
    /\ pc = "container"
    /\ Len(out) < MaxOps
    /\ out' = Append(out, [op |-> "count", on |-> obj, value |-> count(obj)])
    /\ UNCHANGED <<weights, perm, result, back, mem, log, calls, pc, obj, runVars>>

\* (bool) obj
Bool ==
    /\ pc = "container"
    /\ Len(out) < MaxOps
    /\ out' = Append(out, [op |-> "bool", on |-> obj, value |-> AsBool(obj)])
    /\ UNCHANGED <<weights, perm, result, back, mem, log, calls, pc, obj, runVars>>

\* obj.setName(n)
SetName ==
    /\ pc = "container"
    /\ Len(out) < MaxOps
    /\ \E n \in {"A", "B"} :
         /\ obj' = setName(obj, n)
         /\ out' = Append(out, [op |-> "setName", on |-> obj, value |-> n])
    /\ UNCHANGED <<weights, perm, result, back, mem, log, calls, pc, runVars>>

NextWeights ==
    \/ Count
    \/ Bool
    \/ SetName

SpecWeights == InitWeights /\ [][NextWeights]_vars

\* ------------------------------------ weights built from ONNX dimensions
\* one dimension of an ONNX shape: a symbolic dimension has a dim_param
OnnxDimChoices ==
    {[dim_param |-> "", dim_value |-> 1],
     [dim_param |-> "", dim_value |-> 2],
     [dim_param |-> "N", dim_value |-> 0]}

\* a dimension with a negative dim_value
NegativeOnnxDim ==
    [dim_param |-> "", dim_value |-> -7]

\* ONNX shapes: every combination up to rank 4, one repeated dimension from
\* rank 5 to one more than nvinfer1::Dims holds
OnnxShapes ==
    UNION {[1 .. r -> OnnxDimChoices] : r \in 0 .. 4}
        \cup {[i \in 1 .. r |-> e] : r \in 1 .. (MAX_DIMS + 1),
                                    e \in OnnxDimChoices \cup {NegativeOnnxDim}}

\* dim_param == "" ? (dim_value >= 0 ? dim_value : -1) : -1
ConvertOnnxDim(onnxDim) ==
    IF onnxDim.dim_param = ""
    THEN (IF onnxDim.dim_value >= 0 THEN onnxDim.dim_value ELSE -1)
    ELSE -1

\* convertOnnxDims without its assertion
convertOnnxDims_NoAssert(onnxDims, trtDims) ==
    [asserted |-> TRUE,
     ret |-> TRUE,
     trtDims |-> [nbDims |-> Len(onnxDims),
                  d |-> [i \in Slots |-> IF i < Len(onnxDims)
                                         THEN ConvertOnnxDim(onnxDims[i + 1])
                                         ELSE trtDims.d[i]]]]

\* convertOnnxDims(onnxDims, trtDims): asserted tells whether
\* assert(trtDims.nbDims <= MAX_DIMS) let the program go on
convertOnnxDims(onnxDims, trtDims) ==
    [asserted |-> Len(onnxDims) <= MAX_DIMS,
     ret |-> TRUE,
     trtDims |-> [nbDims |-> Len(onnxDims),
                  d |-> [i \in Slots |-> IF i < Len(onnxDims)
                                         THEN ConvertOnnxDim(onnxDims[i + 1])
                                         ELSE trtDims.d[i]]]]

\* the first r dimensions of a Dims as a sequence
DimsSeq(shape) ==
    [i \in 1 .. shape.nbDims |-> shape.d[i - 1]]

\* number of elements a buffer for that shape holds
BufferLen(shape) ==
    LET n == SeqProduct(DimsSeq(shape), 1) IN IF n > 0 THEN n ELSE 0

\* the shapes a caller gives the destination: the source's shape, the
\* source's shape without its last axis, and with one more axis of size 1
DestShapes(shape) ==
    LET r == shape.nbDims
    IN  {MkDims([i \in 1 .. k |-> IF i <= r THEN shape.d[i - 1] ELSE 1]) :
            k \in {r - 1, r, r + 1} \cap (0 .. MAX_DIMS)}

\* the destinations a caller hands to transposeWeights: temporaries of those
\* shapes, a default-constructed ShapedWeights and an empty one
Destinations(type, shape) ==
    {TempWeights(type, ds, "dst", "R") : ds \in DestShapes(shape)}
        \cup {ShapedWeightsDefault(type), empty(type)}

InitImport ==
    /\ \E od \in OnnxShapes, t \in DataTypes :
         LET c == convertOnnxDims(od, MkDims(<< >>)) IN
           IF ~c.asserted
           THEN /\ pc = "aborted"
                /\ weights = NoWeights
                /\ perm = MkPerm(<< >>)
                /\ result = NoWeights
                /\ mem = << >>
           ELSE IF c.trtDims.nbDims > MAX_DIMS
           THEN \* only without the assertion: the object exists, no call
                \* on it is followed
                /\ pc = "overflowed"
                /\ weights = TempWeights(t, c.trtDims, "src", "W")
                /\ perm = MkPerm(<< >>)
                /\ result = NoWeights
                /\ mem = << >>
           ELSE /\ pc = "start"
                /\ weights = TempWeights(t, c.trtDims, "src", "W")
                /\ \E p \in Perms(Len(od)) : perm = MkPerm(p)
                /\ result \in Destinations(t, c.trtDims)
                /\ mem = [src |-> Ramp(BufferLen(weights.shape)),
                          dst |-> Untouched(BufferLen(result.shape))]
                \* the call is one whose behaviour is defined
                /\ ~transposeWeights(weights, perm, result, mem, << >>).ub
    /\ back = NoWeights
    /\ log = << >>
    /\ calls = << >>
    /\ obj = NoWeights
    /\ out = << >>
    /\ env = NoRun
    /\ prog = NoRun
    /\ trace = << >>

\* result.setName(n) after the call
Rename ==
    /\ pc = "called"
    /\ \E n \in {"A", "B"} : result' = setName(result, n)
    /\ pc' = "named"
    /\ UNCHANGED <<weights, perm, back, mem, log, calls, obj, out, runVars>>

NextImport ==
    \/ Transpose
    \/ Rename

SpecImport == InitImport /\ [][NextImport]_vars

\* ------------------------------------------------------- onnx2trt main
\* the passes ::onnx::optimization::GetAvailablePasses() knows
AvailablePasses ==
    {"eliminate_identity", "fuse_bn_into_conv"}

\* the -O option: absent, naming an available pass, naming an unknown one
OptionO ==
    {[given |-> FALSE, passes |-> << >>],
     [given |-> TRUE, passes |-> <<"eliminate_identity">>],
     [given |-> TRUE, passes |-> <<"no_such_pass">>]}

\* the bit depths tried with -d (32 is also the default)
BitDepths ==
    {32, 16, 8}

\* the positional arguments left after the options
Positionals ==
    {<< >>, <<"model.onnx">>, <<"model.onnx", "extra">>}

\* command lines: which options are given and with what argument
CommandLines ==
    [kind : {"onnx2trt"},
     o : {"", "engine.trt"}, m : {"", "out.onnx", "model.onnx"},
     t : {"", "out.txt"}, T : {"", "full.txt"},
     d : BitDepths, O : OptionO,
     F : BOOLEAN, p : BOOLEAN, V : BOOLEAN, h : BOOLEAN,
     positional : Positionals]

\* one call of main on the SDK, the libraries or the file system
Event(call, arg, ok) ==
    [call |-> call, arg |-> arg, ok |-> ok]

\* the files main may touch
FileNames ==
    {"model.onnx", "extra", "engine.trt", "out.onnx", "out.txt", "full.txt"}

\* the contents of the input file; a model is held as these bytes followed
\* by the names of the passes applied to it
InputBytes ==
    <<"model">>

\* the file system before the run: the input file, no output file
InitialFiles ==
    [f \in FileNames |-> IF f = "model.onnx" THEN InputBytes ELSE << >>]

\* the locals of main as declared, and the files
MainLocals ==
    [kind |-> "main",
     engine_filename |-> "", model_filename |-> "", text_filename |-> "",
     full_text_filename |-> "", optimization_passes_string |-> << >>,
     model_dtype_nbits |-> 32,
     optimize_model |-> FALSE, optimize_model_fixed |-> FALSE,
     print_optimization_passes_info |-> FALSE,
     optimizationPassNames |-> {}, onnx_filename |-> "",
     fp16 |-> FALSE, ret |-> 0,
     onnx_model |-> << >>, onnx_buf |-> << >>, files |-> InitialFiles]

InitMain ==
    /\ env \in CommandLines
    /\ prog = MainLocals
    /\ trace = << >>
    /\ pc = "getopt"
    /\ weights = NoWeights
    /\ perm = MkPerm(<< >>)
    /\ result = NoWeights
    /\ back = NoWeights
    /\ mem = << >>
    /\ log = << >>
    /\ calls = << >>
    /\ obj = NoWeights
    /\ out = << >>

tensorVars == <<weights, perm, result, back, mem, log, calls, obj, out>>

\* return code; from main, after the calls in events
Return(code, events) ==
    /\ prog' = [prog EXCEPT !.ret = code]
    /\ trace' = trace \o events
    /\ pc' = "returned"
    /\ UNCHANGED <<env, tensorVars>>

\* go on to the statement at label next
Goto(next, locals, events) ==
    /\ prog' = locals
    /\ trace' = trace \o events
    /\ pc' = next
    /\ UNCHANGED <<env, tensorVars>>

\* the getopt loop
GetOpt ==
    /\ pc = "getopt"
    /\ IF env.V \/ env.h
       THEN \E first \in {x \in {"V", "h"} : env[x]} :
              Return(0, <<Event(IF first = "V" THEN "print_version" ELSE "print_usage",
                                "", TRUE)>>)
       ELSE Goto("passes",
                 [prog EXCEPT !.engine_filename = env.o,
                              !.model_filename = env.m,
                              !.text_filename = env.t,
                              !.full_text_filename = env.T,
                              !.model_dtype_nbits = env.d,
                              !.optimization_passes_string = env.O.passes,
                              !.optimize_model = env.O.given \/ env.F,
                              !.optimize_model_fixed = env.F,
                              !.print_optimization_passes_info = env.p],
                 << >>)

\* GetAvailablePasses and the -p listing
PassesInfo ==
    /\ pc = "passes"
    /\ LET wanted == prog.optimize_model \/ prog.print_optimization_passes_info
           locals == IF wanted
                     THEN [prog EXCEPT !.optimizationPassNames = AvailablePasses]
                     ELSE prog
           events == IF wanted THEN <<Event("GetAvailablePasses", "", TRUE)>> ELSE << >>
       IN  IF prog.print_optimization_passes_info
           THEN /\ prog' = [locals EXCEPT !.ret = 0]
                /\ trace' = trace \o events
                /\ pc' = "returned"
                /\ UNCHANGED <<env, tensorVars>>
           ELSE Goto("args", locals, events)

\* the test of the number of arguments, skipped
CheckArgs_Skip ==
    /\ pc = "args"
    /\ Goto("dtype",
            [prog EXCEPT !.onnx_filename =
                IF env.positional = << >> THEN "" ELSE env.positional[1]],
            << >>)

\* num_args = argc - optind must be 1
CheckArgs ==
    /\ pc = "args"
    /\ IF Len(env.positional) # 1
       THEN Return(-1, <<Event("print_usage", "", TRUE)>>)
       ELSE Goto("dtype", [prog EXCEPT !.onnx_filename = env.positional[1]], << >>)

\* model_dtype from model_dtype_nbits
CheckDtype ==
    /\ pc = "dtype"
    /\ IF prog.model_dtype_nbits = 32 \/ prog.model_dtype_nbits = 16
       THEN Goto("open", prog, << >>)
       ELSE Return(-2, << >>)

\* std::ifstream(onnx_filename)
OpenInput ==
    /\ pc = "open"
    /\ \E found \in BOOLEAN :
         IF found
         THEN Goto("parse", prog, <<Event("ifstream", prog.onnx_filename, TRUE)>>)
         ELSE Return(-3, <<Event("ifstream", prog.onnx_filename, FALSE)>>)

\* ParseFromFile_WAR, and ParseFromTextFile if that fails
ParseInput ==
    /\ pc = "parse"
    /\ \E is_binary \in BOOLEAN, is_text \in BOOLEAN :
         LET bin == <<Event("ParseFromFile_WAR", prog.onnx_filename, is_binary)>>
             txt == <<Event("ParseFromTextFile", prog.onnx_filename, is_text)>>
             parsed == [prog EXCEPT !.onnx_model = prog.files[prog.onnx_filename]]
         IN  IF is_binary
             THEN /\ is_text \* the text parser is not tried: one outcome
                  /\ Goto("model", parsed, bin)
             ELSE IF is_text
             THEN Goto("model", parsed, bin \o txt)
             ELSE Return(-3, bin \o txt)

\* the passes of optimization_passes_string that are available
SelectedPasses(locals) ==
    SelectSeq(locals.optimization_passes_string,
              LAMBDA curPass : curPass \in locals.optimizationPassNames)

\* the -m output: optimize if asked and a pass is left, then MessageToFile
WriteModel ==
    /\ pc = "model"
    /\ IF prog.model_filename = ""
       THEN Goto("text", prog, << >>)
       ELSE \E written \in BOOLEAN :
              LET passes == SelectedPasses(prog)
                  opt == IF prog.optimize_model /\ passes # << >>
                         THEN <<Event(IF prog.optimize_model_fixed
                                      THEN "OptimizeFixed" ELSE "Optimize",
                                      passes, TRUE)>>
                         ELSE << >>
                  model == IF opt # << >> THEN prog.onnx_model \o passes
                           ELSE prog.onnx_model
              IN  Goto("text",
                       [prog EXCEPT !.onnx_model = model,
                                    !.files[prog.model_filename] =
                                        IF written THEN model ELSE @],
                       opt \o <<Event("MessageToFile", prog.model_filename, written)>>)

\* the -t output
WriteText ==
    /\ pc = "text"
    /\ IF prog.text_filename = ""
       THEN Goto("fulltext", prog, << >>)
       ELSE Goto("fulltext",
                 [prog EXCEPT !.files[prog.text_filename] =
                     <<"pretty_print_onnx_to_string">> \o prog.onnx_model],
                 <<Event("ofstream", prog.text_filename, TRUE),
                   Event("pretty_print_onnx_to_string", "onnx_model", TRUE),
                   Event("write", prog.text_filename, TRUE)>>)

\* the -T output
WriteFullText ==
    /\ pc = "fulltext"
    /\ IF prog.full_text_filename = ""
       THEN Goto("create", prog, << >>)
       ELSE Goto("create",
                 [prog EXCEPT !.files[prog.full_text_filename] =
                     <<"PrintToString">> \o prog.onnx_model],
                 <<Event("PrintToString", "onnx_model", TRUE),
                   Event("ofstream", prog.full_text_filename, TRUE),
                   Event("write", prog.full_text_filename, TRUE)>>)

\* builder, network and parser
CreateParser ==
    /\ pc = "create"
    /\ Goto("read", prog,
            <<Event("createInferBuilder", "trt_logger", TRUE),
              Event("createNetworkV2", "explicitBatch", TRUE),
              Event("createParser", "trt_network", TRUE)>>)

\* the input file is read into onnx_buf
ReadInput ==
    /\ pc = "read"
    /\ \E ok \in BOOLEAN :
         IF ok
         THEN Goto("trtparse",
                   [prog EXCEPT !.onnx_buf = prog.files[prog.onnx_filename]],
                   <<Event("read", prog.onnx_filename, TRUE)>>)
         ELSE Return(-4, <<Event("read", prog.onnx_filename, FALSE)>>)

\* trt_parser->parse with its failure not returned from
ParseModel_IgnoreFailure ==
    /\ pc = "trtparse"
    /\ \E ok \in BOOLEAN, fp16 \in BOOLEAN :
         Goto("build", [prog EXCEPT !.fp16 = fp16],
              <<Event("parse", prog.onnx_buf, ok),
                Event("platformHasFastFp16", "", fp16)>>)

\* trt_parser->parse(onnx_buf), then platformHasFastFp16
ParseModel ==
    /\ pc = "trtparse"
    /\ \E ok \in BOOLEAN, fp16 \in BOOLEAN :
         IF ok
         THEN Goto("build", [prog EXCEPT !.fp16 = fp16],
                   <<Event("parse", prog.onnx_buf, TRUE),
                     Event("platformHasFastFp16", "", fp16)>>)
         ELSE /\ ~fp16 \* not asked: one outcome
              /\ Return(-5, <<Event("parse", prog.onnx_buf, FALSE),
                              Event("getNbErrors", "", TRUE)>>)

\* the -o output: build the engine, serialize it, write the plan
BuildEngine ==
    /\ pc = "build"
    /\ IF prog.engine_filename = ""
       THEN Return(0, << >>)
       ELSE LET config == <<Event("createBuilderConfig", "", TRUE),
                            Event("setMaxWorkspaceSize", "max_workspace_size", TRUE)>>
                build == <<Event("buildEngineWithConfig", "trt_network", TRUE),
                           Event("serialize", "trt_engine", TRUE)>>
            IN  IF prog.fp16 /\ prog.model_dtype_nbits = 16
                THEN \E opened \in BOOLEAN :
                       LET events == config \o <<Event("setFlag", "kFP16", TRUE)>>
                                       \o build
                                       \o <<Event("ofstream", prog.engine_filename, opened)>>
                       IN  IF opened
                           THEN Return(0, events
                                    \o <<Event("write", prog.engine_filename, TRUE)>>)
                           ELSE Return(-6, events)
                ELSE IF prog.model_dtype_nbits = 8
                THEN Return(-5, config)
                ELSE \E opened \in BOOLEAN :
                       LET events == config \o build
                                       \o <<Event("ofstream", prog.engine_filename, opened)>>
                       IN  IF opened
                           THEN Return(0, events
                                    \o <<Event("write", prog.engine_filename, TRUE)>>)
                           ELSE Return(-6, events)

NextMain ==
    \/ GetOpt
    \/ PassesInfo
    \/ CheckArgs
    \/ CheckDtype
    \/ OpenInput
    \/ ParseInput
    \/ WriteModel
    \/ WriteText
    \/ WriteFullText
    \/ CreateParser
    \/ ReadInput
    \/ ParseModel
    \/ BuildEngine

SpecMain == InitMain /\ [][NextMain]_vars

\* ------------------------------------ cuda_driver_api_5_memory_alloc
\* the locals of cuda_driver_api_5_memory_alloc; live holds what the driver
\* has handed out and not taken back, host0 is host_page_locked_memory[0]
CudaLocals ==
    [kind |-> "cuda_driver_api_5_memory_alloc",
     context |-> NULL, device_memory_pointer |-> NULL,
     host_page_locked_memory |-> NULL,
     live |-> {}, host0 |-> << >>, ub |-> FALSE]

InitCuda ==
    /\ env = [kind |-> "cuda", device |-> 0]
    /\ prog = CudaLocals
    /\ trace = << >>
    /\ pc = "cuInit"
    /\ weights = NoWeights
    /\ perm = MkPerm(<< >>)
    /\ result = NoWeights
    /\ back = NoWeights
    /\ mem = << >>
    /\ log = << >>
    /\ calls = << >>
    /\ obj = NoWeights
    /\ out = << >>

\* checkDriver(op): the macro comes from utils.h; after a failed call the
\* program either stops or goes on to the next statement with its locals
\* as they were
checkDriver(call, arg, ok, next, locals) ==
    /\ trace' = Append(trace, Event(call, arg, ok))
    /\ UNCHANGED <<env, tensorVars>>
    /\ IF ok
       THEN prog' = locals /\ pc' = next
       ELSE /\ prog' = prog
            /\ \E stops \in BOOLEAN : pc' = IF stops THEN "exited" ELSE next

CuInit ==
    /\ pc = "cuInit"
    /\ \E ok \in BOOLEAN : checkDriver("cuInit", "", ok, "cuCtxCreate", prog)

CuCtxCreate ==
    /\ pc = "cuCtxCreate"
    /\ \E ok \in BOOLEAN :
         checkDriver("cuCtxCreate", "context", ok, "cuMemAlloc",
                     [prog EXCEPT !.context = "context",
                                  !.live = @ \cup {"context"}])

CuMemAlloc ==
    /\ pc = "cuMemAlloc"
    /\ \E ok \in BOOLEAN :
         checkDriver("cuMemAlloc", "device", ok, "cuMemAllocHost",
                     [prog EXCEPT !.device_memory_pointer = "device",
                                  !.live = @ \cup {"device"}])

CuMemAllocHost ==
    /\ pc = "cuMemAllocHost"
    /\ \E ok \in BOOLEAN :
         checkDriver("cuMemAllocHost", "host", ok, "store",
                     [prog EXCEPT !.host_page_locked_memory = "host",
                                  !.live = @ \cup {"host"}])

\* host_page_locked_memory[0] = 123, and the printf that reads it back;
\* through a null pointer the behaviour is undefined and the run is not
\* followed further
HostWrite ==
    /\ pc = "store"
    /\ UNCHANGED <<env, tensorVars>>
    /\ IF prog.host_page_locked_memory = NULL
       THEN /\ prog' = [prog EXCEPT !.ub = TRUE]
            /\ trace' = Append(trace, Event("store", NULL, FALSE))
            /\ pc' = "undefined"
       ELSE /\ prog' = [prog EXCEPT !.host0 = <<123>>]
            /\ trace' = trace \o <<Event("store", prog.host_page_locked_memory, TRUE),
                                   Event("load", prog.host_page_locked_memory, TRUE)>>
            /\ pc' = "cuMemsetD32"

\* cuMemsetD32((CUdeviceptr)host_page_locked_memory, bits of 555.0f, 1),
\* and the printf that reads the value back
CuMemsetD32 ==
    /\ pc = "cuMemsetD32"
    /\ \E ok \in BOOLEAN :
         /\ trace' = trace \o <<Event("cuMemsetD32", prog.host_page_locked_memory, ok),
                                Event("load", prog.host_page_locked_memory, TRUE)>>
         /\ UNCHANGED <<env, tensorVars>>
         /\ IF ok
            THEN prog' = [prog EXCEPT !.host0 = <<555>>] /\ pc' = "cuMemFreeHost"
            ELSE /\ prog' = prog
                 /\ \E stops \in BOOLEAN :
                      pc' = IF stops THEN "exited" ELSE "cuMemFreeHost"

\* cuMemFreeHost followed by one more read of the region
CuMemFreeHost_ThenRead ==
    /\ pc = "cuMemFreeHost"
    /\ trace' = trace \o <<Event("cuMemFreeHost", prog.host_page_locked_memory, TRUE),
                           Event("load", prog.host_page_locked_memory, TRUE)>>
    /\ prog' = [prog EXCEPT !.live = @ \ {"host"}]
    /\ pc' = "done"
    /\ UNCHANGED <<env, tensorVars>>

\* cuMemFreeHost(host_page_locked_memory); return
CuMemFreeHost ==
    /\ pc = "cuMemFreeHost"
    /\ \E ok \in BOOLEAN :
         checkDriver("cuMemFreeHost", prog.host_page_locked_memory, ok, "done",
                     [prog EXCEPT !.live = @ \ {"host"}])

NextCuda ==
    \/ CuInit
    \/ CuCtxCreate
    \/ CuMemAlloc
    \/ CuMemAllocHost
    \/ HostWrite
    \/ CuMemsetD32
    \/ CuMemFreeHost

SpecCuda == InitCuda /\ [][NextCuda]_vars

\* ------------------------------------------ pretty_print_onnx_to_string
\* texts are sequences of characters; positions are counted from 0 as in
\* std::string
\* std::string::npos
npos == -1

CharAt(s, i) == s[i + 1]

\* s.substr(pos, n)
Substr(s, pos, n) ==
    [i \in 1 .. n |-> s[pos + i]]

\* key occurs in s at position i
MatchAt(s, key, i) ==
    /\ i + Len(key) <= Len(s)
    /\ \A k \in 1 .. Len(key) : s[i + k] = key[k]

\* s.find(key, pos)
Find(s, key, pos) ==
    LET hits == {i \in pos .. (Len(s) - Len(key)) : MatchAt(s, key, i)}
    IN  IF hits = {} THEN npos
        ELSE CHOOSE i \in hits : \A j \in hits : i <= j

\* s.replace(pos, n, sub)
Replace(s, pos, n, sub) ==
    Substr(s, 0, pos) \o sub \o Substr(s, pos + n, Len(s) - pos - n)

RawDataKey ==
    <<"r", "a", "w", "_", "d", "a", "t", "a", ":", " ", "\"">>

Ellipsis ==
    <<".", ".", ".">>

Quote == "\""

Backslash == "\\"

\* while (s[(end = s.find("\"", ++end)) - 1] == '\\') {}: the position of
\* the closing quote, or npos when the search ran off the text and s[npos - 1]
\* was read
RECURSIVE SkipEscapedQuotes(_, _)
SkipEscapedQuotes(s, end) ==
    LET e == Find(s, <<Quote>>, end + 1)
    IN  IF e = npos THEN npos
        ELSE IF CharAt(s, e - 1) = Backslash THEN SkipEscapedQuotes(s, e)
        ELSE e

\* the loop of remove_raw_data_strings from position beg on: [s, ub]
RECURSIVE RawDataLoop(_, _)
RawDataLoop(s, beg) ==
    LET found == Find(s, RawDataKey, beg)
        b == found + Len(RawDataKey)
        end == SkipEscapedQuotes(s, b - 1)
    IN  IF found = npos THEN [s |-> s, ub |-> FALSE]
        ELSE IF end = npos THEN [s |-> s, ub |-> TRUE]
        ELSE IF end - b > 128
        THEN RawDataLoop(Replace(s, b, end - b, Ellipsis), b + Len(Ellipsis))
        ELSE RawDataLoop(s, b + Len(Ellipsis))

remove_raw_data_strings(s) ==
    RawDataLoop(s, 0)

FloatDataKey ==
    <<"f", "l", "o", "a", "t", "_", "d", "a", "t", "a", ":">>

Int32DataKey ==
    <<"i", "n", "t", "3", "2", "_", "d", "a", "t", "a", ":">>

Int64DataKey ==
    <<"i", "n", "t", "6", "4", "_", "d", "a", "t", "a", ":">>

Newline == "\n"

\* the lines std::getline yields from s
RECURSIVE GetLines(_)
GetLines(s) ==
    LET nl == Find(s, <<Newline>>, 0)
    IN  IF s = << >> THEN << >>
        ELSE IF nl = npos THEN <<s>>
        ELSE <<Substr(s, 0, nl)>> \o GetLines(Substr(s, nl + 1, Len(s) - nl - 1))

\* the test of a line with the int32_data key forgotten
IsRepeatedDataLine_NoInt32(line) ==
    \/ Find(line, FloatDataKey, 0) # npos
    \/ Find(line, Int64DataKey, 0) # npos

IsRepeatedDataLine(line) ==
    \/ Find(line, FloatDataKey, 0) # npos
    \/ Find(line, Int32DataKey, 0) # npos
    \/ Find(line, Int64DataKey, 0) # npos

\* the loop of remove_repeated_data_strings over the lines from k on
RECURSIVE RepeatedDataLoop(_, _, _, _)
RepeatedDataLoop(lines, k, is_repeat, oss) ==
    IF k > Len(lines) THEN oss
    ELSE LET line == lines[k]
         IN  IF IsRepeatedDataLine(line)
             THEN RepeatedDataLoop(lines, k + 1, TRUE,
                    IF ~is_repeat
                    THEN oss \o Substr(line, 0, Find(line, <<":">>, 0) + 1)
                             \o <<" ">> \o Ellipsis \o <<Newline>>
                    ELSE oss)
             ELSE RepeatedDataLoop(lines, k + 1, FALSE, oss \o line \o <<Newline>>)

remove_repeated_data_strings(s) ==
    RepeatedDataLoop(GetLines(s), 1, FALSE, << >>)

\* pretty_print_onnx_to_string on the text PrintToString gave: [s, ub]
pretty_print_onnx_to_string(printed) ==
    LET raw == remove_raw_data_strings(printed)
    IN  IF raw.ub THEN raw
        ELSE [s |-> remove_repeated_data_strings(raw.s), ub |-> FALSE]

\* n times the character c
Rep(c, n) ==
    [i \in 1 .. n |-> c]

\* a raw_data field with that payload, as TextFormat prints it
RawDataLine(payload) ==
    RawDataKey \o payload \o <<Quote, Newline>>

\* the lines of a printed model: raw_data payloads that are empty, short, of
\* 128 and of 129 characters, with an escaped quote, ending in an escaped
\* backslash; repeated data fields; a field that is no weight
PrintedLines ==
    {RawDataLine(<< >>),
     RawDataLine(<<"a", "b", "c">>),
     RawDataLine(Rep("x", 128)),
     RawDataLine(Rep("x", 129)),
     RawDataLine(<<"a", Backslash, Quote, "b">>),
     RawDataLine(Rep("x", 127) \o <<Backslash, Quote, "b">>),
     RawDataLine(<<"a", Backslash, Backslash>>),
     FloatDataKey \o <<" ", "1", Newline>>,
     Int64DataKey \o <<" ", "2", Newline>>,
     <<"n", "a", "m", "e", ":", " ", "\"", "W", "\"", "\n">>}

\* printed models of up to MaxLines fields
RECURSIVE PrintedTexts(_)
PrintedTexts(n) ==
    IF n = 0 THEN {<< >>}
    ELSE {l \o t : l \in PrintedLines, t \in PrintedTexts(n - 1)}

InitText ==
    /\ \E n \in 1 .. MaxLines : \E t \in PrintedTexts(n) :
         env = [kind |-> "text", message |-> t]
    /\ prog = [kind |-> "pretty_print_onnx_to_string", s |-> << >>, ub |-> FALSE]
    /\ trace = << >>
    /\ pc = "PrintToString"
    /\ weights = NoWeights
    /\ perm = MkPerm(<< >>)
    /\ result = NoWeights
    /\ back = NoWeights
    /\ mem = << >>
    /\ log = << >>
    /\ calls = << >>
    /\ obj = NoWeights
    /\ out = << >>

\* TextFormat::PrintToString(message, &s)
PrintToString ==
    /\ pc = "PrintToString"
    /\ prog' = [prog EXCEPT !.s = env.message]
    /\ pc' = "remove_raw_data_strings"
    /\ UNCHANGED <<env, trace, tensorVars>>

\* remove_raw_data_strings(s); a run with undefined behaviour is not followed
RemoveRawDataStrings ==
    /\ pc = "remove_raw_data_strings"
    /\ LET r == remove_raw_data_strings(prog.s)
       IN  /\ prog' = [prog EXCEPT !.s = r.s, !.ub = r.ub]
           /\ pc' = IF r.ub THEN "undefined" ELSE "remove_repeated_data_strings"
    /\ UNCHANGED <<env, trace, tensorVars>>

\* s = remove_repeated_data_strings(s); return s
RemoveRepeatedDataStrings ==
    /\ pc = "remove_repeated_data_strings"
    /\ prog' = [prog EXCEPT !.s = remove_repeated_data_strings(prog.s)]
    /\ pc' = "returned"
    /\ UNCHANGED <<env, trace, tensorVars>>

NextText ==
    \/ PrintToString
    \/ RemoveRawDataStrings
    \/ RemoveRepeatedDataStrings

SpecText == InitText /\ [][NextText]_vars

\* ------------------------------------------------ MySigmoid_kernel_fp32
\* unsigned int is 32 bits wide; a value is held as two 16-bit halves
Half == 2 ^ 16

\* blockDim.x * blockIdx.x in unsigned int, for blockDim.x < 2^16
UMul(dim, idx) ==
    LET pl == dim * (idx % Half)
        ph == dim * (idx \div Half) + (pl \div Half)
    IN  [hi |-> ph % Half, lo |-> pl % Half]

\* threadIdx.x + u in unsigned int, for threadIdx.x < 2^16
UAdd(tid, u) ==
    LET l == u.lo + tid
    IN  [hi |-> (u.hi + (l \div Half)) % Half, lo |-> l % Half]

\* the conversion of an unsigned int to int
ToInt(u) ==
    IF u.hi >= Half \div 2 THEN (u.hi - Half) * Half + u.lo
    ELSE u.hi * Half + u.lo

\* int position = threadIdx.x + blockDim.x * blockIdx.x
Position(th, blockDim) ==
    ToInt(UAdd(th.threadIdx, UMul(blockDim, th.blockIdx)))

\* sigmoid(v), left uninterpreted
sigmoid(v) ==
    <<"sigmoid", v>>

\* the block sizes tried: 1024 is the largest a device takes
BlockDims ==
    {1, 2, 1024}

\* the grid sizes tried, up to 2^22 + 1 of the 2^31 - 1 blocks a device takes
GridDims ==
    {1, 2, 3, 2 ^ 21 + 1, 2 ^ 22 + 1}

\* the blocks of a grid whose threads are followed
SampleBlocks(gridDim) ==
    {0, 1, 2 ^ 21, 2 ^ 22} \cap (0 .. (gridDim - 1))

\* the threads followed: the first and the last of each sampled block
SampleThreads(gridDim, blockDim) ==
    {[blockIdx |-> b, threadIdx |-> t] :
        b \in SampleBlocks(gridDim), t \in {0, blockDim - 1}}

InitKernel ==
    /\ \E g \in GridDims, b \in BlockDims, e \in 0 .. MaxEdge :
         env = [kind |-> "kernel", gridDim |-> g, blockDim |-> b, edge |-> e,
                threads |-> SampleThreads(g, b)]
    /\ prog = [kind |-> "MySigmoid_kernel_fp32",
               x |-> [i \in 0 .. (env.edge - 1) |-> i + 1],
               output |-> [i \in 0 .. (env.edge - 1) |-> << >>],
               done |-> {}, wrote |-> {}, ub |-> FALSE]
    /\ trace = << >>
    /\ pc = "launched"
    /\ weights = NoWeights
    /\ perm = MkPerm(<< >>)
    /\ result = NoWeights
    /\ back = NoWeights
    /\ mem = << >>
    /\ log = << >>
    /\ calls = << >>
    /\ obj = NoWeights
    /\ out = << >>

\* one thread runs the kernel body; a store outside output is undefined
\* behaviour and is recorded in ub
RunThread ==
    /\ pc = "launched"
    /\ \E th \in env.threads \ prog.done :
         LET position == Position(th, env.blockDim)
         IN  IF position >= env.edge
             THEN prog' = [prog EXCEPT !.done = @ \cup {th}]
             ELSE prog' = [prog EXCEPT
                     !.done = @ \cup {th},
                     !.wrote = @ \cup {[thread |-> th, index |-> position]},
                     !.output = IF position \in DOMAIN prog.output
                                THEN [@ EXCEPT ![position] = sigmoid(prog.x[position])]
                                ELSE @,
                     !.ub = @ \/ position \notin DOMAIN prog.output]
    /\ UNCHANGED <<env, trace, pc, tensorVars>>

NextKernel ==
    \/ RunThread

SpecKernel == InitKernel /\ [][NextKernel]_vars

\* ------------------------------------------ remove_repeated_data_strings
\* the lines of the texts the function is applied to: data fields of the
\* three kinds, one of them indented and one with a colon before its key,
\* two fields that are no data, and the empty line
TextLines ==
    {FloatDataKey \o <<" ", "1">>,
     <<" ", " ">> \o Int32DataKey \o <<" ", "2">>,
     Int64DataKey \o <<" ", "3">>,
     <<"a", ":", " ">> \o FloatDataKey \o <<" ", "4">>,
     <<"n", "a", "m", "e", ":", " ", "\"", "W", "\"">>,
     <<"d", "i", "m", "s", ":", " ", "2">>,
     << >>}

\* the texts of n lines, each ended by a newline
RECURSIVE LinedTexts(_)
LinedTexts(n) ==
    IF n = 0 THEN {<< >>}
    ELSE {l \o <<Newline>> \o t : l \in TextLines, t \in LinedTexts(n - 1)}

\* a text without its final newline
Unterminated(t) ==
    IF t # << >> /\ t[Len(t)] = Newline THEN Substr(t, 0, Len(t) - 1) ELSE t

InitRepeat ==
    /\ \E n \in 0 .. MaxTextLines : \E t \in LinedTexts(n) :
         \E given \in {t, Unterminated(t)} :
           env = [kind |-> "lines", text |-> given]
    /\ prog = [kind |-> "remove_repeated_data_strings",
               once |-> << >>, twice |-> << >>]
    /\ trace = << >>
    /\ pc = "given"
    /\ weights = NoWeights
    /\ perm = MkPerm(<< >>)
    /\ result = NoWeights
    /\ back = NoWeights
    /\ mem = << >>
    /\ log = << >>
    /\ calls = << >>
    /\ obj = NoWeights
    /\ out = << >>

\* remove_repeated_data_strings(text)
RemoveOnce ==
    /\ pc = "given"
    /\ prog' = [prog EXCEPT !.once = remove_repeated_data_strings(env.text)]
    /\ pc' = "once"
    /\ UNCHANGED <<env, trace, tensorVars>>

\* remove_repeated_data_strings on its own output
RemoveAgain ==
    /\ pc = "once"
    /\ prog' = [prog EXCEPT !.twice = remove_repeated_data_strings(prog.once)]
    /\ pc' = "twice"
    /\ UNCHANGED <<env, trace, tensorVars>>

NextRepeat ==
    \/ RemoveOnce
    \/ RemoveAgain

SpecRepeat == InitRepeat /\ [][NextRepeat]_vars

\* ---------------------------------------------------------------- claims
\* vocabulary of the properties: rank-r coordinates and their row-major
\* offsets, written independently of the padded 4-axis arithmetic above

\* the coordinates inside the rank-r shape d
CoordsOf(d, r) ==
    {c \in [0 .. (r - 1) -> 0 .. MaxDim] : \A i \in 0 .. (r - 1) : c[i] < d[i]}

\* row-major offset of coordinate c in the rank-r shape d (last axis fastest)
RECURSIVE OffsetUpTo(_, _, _)
OffsetUpTo(c, d, i) ==
    IF i < 0 THEN 0 ELSE OffsetUpTo(c, d, i - 1) * d[i] + c[i]

RowMajorOffset(c, d, r) ==
    OffsetUpTo(c, d, r - 1)

\* product of the first r dimensions
DimsProduct(d, r) ==
    SeqProduct([i \in 1 .. r |-> d[i - 1]], 1)

Rank(c) == c.weights.shape.nbDims

ValidPerm(c) ==
    /\ \A i \in 0 .. (Rank(c) - 1) : c.perm.order[i] \in 0 .. (Rank(c) - 1)
    /\ \A i, j \in 0 .. (Rank(c) - 1) : c.perm.order[i] = c.perm.order[j] => i = j

StaticShape(c) ==
    \A i \in 0 .. (Rank(c) - 1) : c.weights.shape.d[i] >= 0

Distinct(c) ==
    c.before.values # c.weights.values

SameRank(c) ==
    c.before.shape.nbDims = Rank(c)

SrcBefore(c) == c.memBefore[c.weights.values]
SrcAfter(c) == c.memAfter[c.weights.values]
DstBefore(c) == c.memBefore[c.before.values]
DstAfter(c) == c.memAfter[c.before.values]

\* the case C1, C2 and C6 are about
GatherCase(c) ==
    /\ Rank(c) \in 1 .. 4
    /\ StaticShape(c)
    /\ ValidPerm(c)
    /\ IsTransposableType(c.weights.type) \* FLOAT or FLOAT16
    /\ SameRank(c)

\* the element of the destination where the source element at cs belongs
MovedTo(c, cs) ==
    LET dc == [i \in 0 .. (Rank(c) - 1) |-> cs[c.perm.order[i]]]
        nd == [i \in 0 .. (Rank(c) - 1) |-> c.weights.shape.d[c.perm.order[i]]]
    IN  RowMajorOffset(dc, nd, Rank(c))

Example23 == [k \in 0 .. 5 |-> <<0, 3, 1, 4, 2, 5>>[k + 1]]

IsExample23(c) ==
    /\ c.weights.shape = MkDims(<<2, 3>>)
    /\ c.perm = MkPerm(<<1, 0>>)
    /\ SrcBefore(c) = Ramp(6)
    /\ IsTransposableType(c.weights.type)
    /\ Distinct(c)
    /\ SameRank(c)

\* C1: for rank 1..4, non-negative dimensions, a bijective permutation,
\* element type FLOAT or FLOAT16 and a destination of the same rank that is
\* not the source, transposeWeights returns true and the destination element
\* at d, d[i] = c[perm[i]], row-major in new_shape[i] = shape[perm[i]], is the
\* source element at c, unchanged; shape (2,3), perm (1,0), source
\* [0,1,2,3,4,5] gives [0,3,1,4,2,5]
C1_GatherMovesEveryElement ==
    \A k \in DOMAIN calls :
      LET c == calls[k] IN
        /\ (GatherCase(c) /\ Distinct(c)) =>
              /\ c.ret
              /\ ~c.ub
              /\ \A i \in 0 .. (Rank(c) - 1) :
                    c.after.shape.d[i] = c.weights.shape.d[c.perm.order[i]]
              /\ \A cs \in CoordsOf(c.weights.shape.d, Rank(c)) :
                    /\ MovedTo(c, cs) \in DOMAIN DstAfter(c)
                    /\ DstAfter(c)[MovedTo(c, cs)]
                          = SrcBefore(c)[RowMajorOffset(cs, c.weights.shape.d, Rank(c))]
        /\ IsExample23(c) => DstAfter(c) = Example23

C1_Witness ==
    /\ pc = "called"
    /\ IsExample23(calls[1])
    /\ calls[1].ret
    /\ calls[1].weights.type = FLOAT16

\* C2: transposing with p and then transposing the result with the inverse
\* of p gives back the original shape and the original element order
C2_RoundTrip ==
    (pc = "back" /\ GatherCase(calls[1]) /\ Distinct(calls[1])) =>
        /\ calls[2].ret
        /\ ~calls[2].ub
        /\ back.shape.nbDims = weights.shape.nbDims
        /\ \A i \in 0 .. (weights.shape.nbDims - 1) : back.shape.d[i] = weights.shape.d[i]
        /\ mem[back.values] = SrcBefore(calls[1])

C2_Witness ==
    /\ pc = "back"
    /\ Distinct(calls[1])
    /\ weights.shape = MkDims(<<2, 1, 2>>)
    /\ perm = MkPerm(<<1, 2, 0>>)
    /\ mem[back.values] = Ramp(4)
    /\ mem[result.values] # Ramp(4)

\* C3: a source of rank 5 or more makes transposeWeights return false and
\* leaves every element of the destination buffer as it was
C3_RankAbove4Fails ==
    \A k \in DOMAIN calls :
      LET c == calls[k] IN
        Rank(c) >= 5 => (~c.ret /\ DstAfter(c) = DstBefore(c) /\ c.writes = << >>)

C3_Witness ==
    /\ pc = "called"
    /\ Rank(calls[1]) = 5
    /\ calls[1].weights.type = FLOAT
    /\ DstBefore(calls[1]) = Untouched(2)
    /\ ~calls[1].ret

\* C4: a source whose element type is neither FLOAT nor FLOAT16 makes
\* transposeWeights return false, whatever its rank and permutation, and no
\* element is copied
C4_OtherTypeFails ==
    \A k \in DOMAIN calls :
      LET c == calls[k] IN
        ~(c.weights.type \in {FLOAT, FLOAT16}) =>
            (~c.ret /\ c.writes = << >> /\ c.memAfter = c.memBefore)

C4_Witness ==
    /\ pc = "called"
    /\ calls[1].weights.type = INT32
    /\ Rank(calls[1]) = 2
    /\ ~calls[1].ret

\* C5: when transposeWeights returns false the destination is exactly as it
\* was before the call: shape (rank and every dimension), elements and name
C5_FailureLeavesDestination ==
    \A k \in DOMAIN calls :
      LET c == calls[k] IN
        ~c.ret => (c.after = c.before /\ DstAfter(c) = DstBefore(c))

\* C6: on success the gather writes the destination offsets 0 .. count-1,
\* each exactly once and none outside (no write when a dimension is 0)
C6_EveryOffsetWrittenOnce ==
    \A k \in DOMAIN calls :
      LET c == calls[k]
          n == DimsProduct(c.weights.shape.d, Rank(c))
      IN  (GatherCase(c) /\ c.ret) =>
            /\ Len(c.writes) = n
            /\ \A o \in 0 .. (n - 1) :
                  Cardinality({j \in DOMAIN c.writes : c.writes[j] = o}) = 1
            /\ \A j \in DOMAIN c.writes : c.writes[j] \in 0 .. (n - 1)

C6_Witness ==
    /\ pc = "called"
    /\ calls[1].ret
    /\ GatherCase(calls[1])
    /\ Rank(calls[1]) = 4
    /\ Len(calls[1].writes) = 8
    /\ calls[1].perm = MkPerm(<<3, 0, 2, 1>>)

\* C7: transposeWeights never changes its source: with a destination buffer
\* that is not the source buffer, the source's elements, shape, type and
\* name are after the call what they were before it
C7_SourceNotMutated ==
    \A k \in DOMAIN calls :
      LET c == calls[k] IN
        Distinct(c) =>
            /\ SrcAfter(c) = SrcBefore(c)
            /\ (k = 1 => weights = c.weights)
            /\ (k = 2 /\ pc = "retried" => weights = c.weights)
            /\ (k = 2 /\ pc = "back" => result = c.weights)

C7_Witness ==
    /\ pc = "called"
    /\ Distinct(calls[1])
    /\ calls[1].ret
    /\ DstAfter(calls[1]) # DstBefore(calls[1])
    /\ SrcAfter(calls[1]) = SrcBefore(calls[1])

\* C8: a call that returns true has sent exactly one message, of severity
\* warning, to the logger and has given the destination the source's name; a
\* call that returns false has sent nothing and left the name alone
C8_WarningAndNameOnSuccess ==
    \A k \in DOMAIN calls :
      LET c == calls[k] IN
        /\ c.ret =>
              /\ Len(c.logAfter) = Len(c.logBefore) + 1
              /\ SubSeq(c.logAfter, 1, Len(c.logBefore)) = c.logBefore
              /\ c.logAfter[Len(c.logAfter)].severity = kWARNING
              /\ getName(c.after) = getName(c.weights)
        /\ ~c.ret =>
              /\ c.logAfter = c.logBefore
              /\ getName(c.after) = getName(c.before)

C8_Witness ==
    /\ pc = "called"
    /\ calls[1].ret
    /\ getName(calls[1].before) = "R"
    /\ getName(result) = "W"
    /\ Len(log) = 1

\* C10: transposeWeights returns true exactly when the source rank is <= 4
\* and the element type is FLOAT or FLOAT16; a second call with the same
\* arguments returns what the first returned and, the source contents being
\* the same, leaves the same destination contents
C10_OutcomeDependsOnRankAndType ==
    /\ \A k \in DOMAIN calls :
          calls[k].ret = (Rank(calls[k]) <= 4 /\ calls[k].weights.type \in {FLOAT, FLOAT16})
    /\ pc = "retried" =>
          /\ calls[2].ret = calls[1].ret
          /\ SrcBefore(calls[2]) = SrcBefore(calls[1]) => DstAfter(calls[2]) = DstAfter(calls[1])

C10_Witness ==
    /\ pc = "retried"
    /\ ~calls[1].ret
    /\ ~calls[2].ret
    /\ Rank(calls[1]) = 5
    /\ calls[1].weights.type = FLOAT16

\* C9: count() is 0 for a null pointer with rank <= 0, 1 for rank 0 with a
\* pointer, and otherwise the product of d[0 .. rank-1], also when the
\* pointer is null and the rank is >= 1
C9_Count ==
    \A k \in DOMAIN out :
      LET e == out[k]
          w == e.on
      IN  e.op = "count" =>
            /\ (w.values = NULL /\ w.shape.nbDims <= 0) => e.value = 0
            /\ (w.values # NULL /\ w.shape.nbDims = 0) => e.value = 1
            /\ ~(w.values = NULL /\ w.shape.nbDims <= 0) =>
                  e.value = DimsProduct(w.shape.d, w.shape.nbDims)

C9_Witness ==
    /\ out # << >>
    /\ out[1].op = "count"
    /\ obj.values = NULL
    /\ obj.shape = MkDims(<<2, 1, 2>>)
    /\ out[1].value = 4

IdentityPerm(c) ==
    \A i \in 0 .. (Rank(c) - 1) : c.perm.order[i] = i

\* C12: for every shape of rank 1..4, e.g. (1,3,4,4), and the identity
\* permutation, transposeWeights succeeds and the destination buffer is
\* element for element the source buffer, with the same shape
C12_IdentityCopies ==
    \A k \in DOMAIN calls :
      LET c == calls[k] IN
        (GatherCase(c) /\ Distinct(c) /\ IdentityPerm(c)) =>
            /\ c.ret
            /\ ~c.ub
            /\ DstAfter(c) = SrcBefore(c)
            /\ c.after.shape.nbDims = c.weights.shape.nbDims
            /\ \A i \in 0 .. (Rank(c) - 1) : c.after.shape.d[i] = c.weights.shape.d[i]

C12_Witness ==
    /\ pc = "called"
    /\ calls[1].weights.shape = MkDims(<<1, 3, 4, 4>>)
    /\ IdentityPerm(calls[1])
    /\ Distinct(calls[1])
    /\ calls[1].before.shape = MkDims(<<1, 3, 4, 4>>)
    /\ calls[1].weights.type = FLOAT
    /\ DstBefore(calls[1]) = Untouched(48)
    /\ DstAfter(calls[1]) = Ramp(48)

\* a rank-r coordinate in the padded 4-axis view: zeros on the pad axes
PadCoord(cs, r) ==
    [k \in 0 .. 3 |-> IF k < 4 - r THEN 0 ELSE cs[k - (4 - r)]]

\* the padded view of a rank-r shape sh under permutation p, as C18 states it
PaddedViewOk(sh, p, r, valid) ==
    LET pad == 4 - r
        es == ExpandShape(sh, r)
        ep == ExpandPerm(p, r)
        st == Strides(es)
    IN  /\ \A k \in 0 .. (pad - 1) : es[k] = 1 /\ ep[k] = k
        /\ \A i \in 0 .. (r - 1) : es[pad + i] = sh.d[i] /\ ep[pad + i] = p.order[i] + pad
        /\ valid => /\ \A k \in 0 .. 3 : ep[k] \in 0 .. 3
                    /\ \A j, k \in 0 .. 3 : ep[j] = ep[k] => j = k
        /\ st[3] = 1
        /\ \A i \in 0 .. 2 : st[i] = st[i + 1] * es[i + 1]
        /\ \A cs \in CoordsOf(sh.d, r) :
              FlatIndex(PadCoord(cs, r), st) = RowMajorOffset(cs, sh.d, r)

\* C18: for rank r <= 4 and pad = 4 - r the 4-axis view has size 1 on the
\* axes below pad and the size of original axis i on axis pad+i; the padded
\* permutation fixes the pad axes and sends pad+i to perm[i]+pad, a bijection
\* on 0..3 when perm is one on 0..r-1; the strides are row-major; so the flat
\* offset of a padded coordinate is its row-major offset in the rank-r
\* layout, for the source and for the destination
C18_PaddedView ==
    \A k \in DOMAIN calls :
      LET c == calls[k] IN
        (Rank(c) \in 0 .. 4 /\ SameRank(c)) =>
            /\ PaddedViewOk(c.weights.shape, c.perm, Rank(c), ValidPerm(c))
            /\ PaddedViewOk(c.after.shape, c.perm, Rank(c), ValidPerm(c))

C18_Witness ==
    /\ pc = "called"
    /\ calls[1].weights.shape = MkDims(<<2, 3>>)
    /\ calls[1].after.shape = MkDims(<<3, 2>>)
    /\ ExpandShape(calls[1].after.shape, 2) = [k \in 0 .. 3 |-> <<1, 1, 3, 2>>[k + 1]]
    /\ ExpandPerm(calls[1].perm, 2) = [k \in 0 .. 3 |-> <<0, 1, 3, 2>>[k + 1]]
    /\ calls[1].ret


\* the objects the program holds
Objects ==
    {w \in {weights, result, back, obj} : w # NoWeights}

HasDynamicDim(c) ==
    \E i \in 0 .. (Rank(c) - 1) : c.weights.shape.d[i] = -1

\* C13: transposeWeights never reports success for a source whose shape has
\* a dimension equal to -1
C13_DynamicDimFails ==
    \A k \in DOMAIN calls : HasDynamicDim(calls[k]) => ~calls[k].ret

\* iterations of a gather over the first k axes of a shape
GatherIterations(shape, k) ==
    IF \A i \in 0 .. (k - 1) : shape.d[i] > 0 THEN DimsProduct(shape.d, k) ELSE 0

\* C19: after any call the first r dimensions of the destination are the
\* source's dimensions permuted; the destination's rank, its dimensions from
\* r on, its datatype and its buffer pointer are unchanged; and a gather that
\* runs iterates over as many axes as the destination's rank
C19_DestinationFrame ==
    \A k \in DOMAIN calls :
        LET c == calls[k]
            r == Rank(c)
        IN  /\ \A i \in 0 .. (r - 1) :
                 c.after.shape.d[i] = c.weights.shape.d[c.perm.order[i]]
            /\ c.after.shape.nbDims = c.before.shape.nbDims
            /\ \A i \in Slots : i >= r => c.after.shape.d[i] = c.before.shape.d[i]
            /\ c.after.type = c.before.type
            /\ c.after.values = c.before.values
            /\ c.ret => /\ ~c.ub
                        /\ Len(c.writes)
                             = GatherIterations(c.weights.shape, c.before.shape.nbDims)

\* C19 witness: a (2,1,2) source transposed with (1,0,2) into a destination
\* of rank 2: the destination's slots become (1,2,2) while its rank stays 2
\* and the gather moves the two elements of the source's first two axes
C19_Witness ==
    /\ calls # << >>
    /\ calls[1].ret
    /\ Rank(calls[1]) = 3
    /\ DimsSeq(calls[1].weights.shape) = <<2, 1, 2>>
    /\ calls[1].perm.order[0] = 1
    /\ calls[1].perm.order[1] = 0
    /\ calls[1].before.shape.nbDims = 2
    /\ calls[1].before.shape.d[2] = 0
    /\ calls[1].after.shape.nbDims = 2
    /\ calls[1].after.shape.d[0] = 1
    /\ calls[1].after.shape.d[1] = 2
    /\ calls[1].after.shape.d[2] = 2
    /\ Len(calls[1].writes) = 2

\* ------------------------------------------------ claims about main
Occurs(call) ==
    \E i \in DOMAIN trace : trace[i].call = call

\* every b in the trace has an a before it
Precedes(a, b) ==
    \A j \in DOMAIN trace :
        trace[j].call = b => \E i \in 1 .. (j - 1) : trace[i].call = a

\* the events on the engine file
EngineFileEvents ==
    {j \in DOMAIN trace : /\ trace[j].call \in {"ofstream", "write"}
                          /\ trace[j].arg = "engine.trt"}

EngineWrites ==
    {j \in EngineFileEvents : trace[j].call = "write"}

ParseFailed ==
    \E i \in DOMAIN trace : trace[i].call = "parse" /\ ~trace[i].ok

\* C14: in every run of main the SDK calls come in the order create builder,
\* create network, create parser, parse, build engine, serialize, write engine
\* file; the build follows a successful parse; a failed parse returns -5 with
\* no engine built and nothing done on the engine file
C14_SdkCallOrder ==
    /\ Precedes("createInferBuilder", "createNetworkV2")
    /\ Precedes("createNetworkV2", "createParser")
    /\ Precedes("createParser", "parse")
    /\ Precedes("parse", "buildEngineWithConfig")
    /\ Precedes("buildEngineWithConfig", "serialize")
    /\ \A j \in EngineFileEvents :
         \E i \in 1 .. (j - 1) : trace[i].call = "serialize"
    /\ \A j \in DOMAIN trace :
         trace[j].call = "buildEngineWithConfig"
            => \E i \in 1 .. (j - 1) : trace[i].call = "parse" /\ trace[i].ok
    /\ ParseFailed => /\ pc = "returned"
                      /\ prog.ret = -5
                      /\ ~Occurs("buildEngineWithConfig")
                      /\ ~Occurs("serialize")
                      /\ EngineFileEvents = {}

\* C14 witness: a run that returned 0 after writing the engine file
C14_Witness ==
    /\ pc = "returned"
    /\ prog.ret = 0
    /\ EngineWrites # {}
    /\ Occurs("createInferBuilder")
    /\ Occurs("buildEngineWithConfig")
    /\ Occurs("serialize")

\* the run got past the validation of the arguments and of the input
InputValidated ==
    \E i \in DOMAIN trace :
        /\ trace[i].call \in {"ParseFromFile_WAR", "ParseFromTextFile"}
        /\ trace[i].ok

\* C17: a run with -F whose input model was parsed has applied OptimizeFixed
\* to the model by the time it returns
C17_FixedModeOptimizes ==
    (pc = "returned" /\ env.kind = "onnx2trt" /\ env.F /\ InputValidated)
        => Occurs("OptimizeFixed")

\* the events that write an output file or create an SDK object
OutputOrSdkEvents ==
    {j \in DOMAIN trace :
        \/ trace[j].call \in {"MessageToFile", "write", "createInferBuilder",
                              "createNetworkV2", "createParser"}
        \/ trace[j].call = "ofstream" /\ trace[j].arg # prog.onnx_filename}

InputFailed ==
    \E i \in DOMAIN trace :
        /\ trace[i].call \in {"ifstream", "ParseFromTextFile"}
        /\ trace[i].arg = prog.onnx_filename
        /\ ~trace[i].ok

\* C20: without -h, -V and -p, main returns -1 after print_usage when the
\* positional arguments are not exactly one; otherwise -2, the input
\* untouched, when -d is neither 32 nor 16; otherwise -3 when the input
\* cannot be opened or parsed; and a run that returned -1, -2 or -3 wrote no
\* output file and created no builder, network or parser
C20_ValidationPriority ==
    (pc = "returned" /\ env.kind = "onnx2trt" /\ ~env.h /\ ~env.V /\ ~env.p)
        => /\ Len(env.positional) # 1
                => /\ prog.ret = -1
                   /\ trace[Len(trace)].call = "print_usage"
           /\ (Len(env.positional) = 1 /\ env.d \notin {32, 16})
                => /\ prog.ret = -2
                   /\ ~Occurs("ifstream")
           /\ (Len(env.positional) = 1 /\ env.d \in {32, 16} /\ InputFailed)
                => prog.ret = -3
           /\ prog.ret = -1 => Len(env.positional) # 1
           /\ prog.ret = -2 => env.d \notin {32, 16}
           /\ prog.ret = -3 => InputFailed
           /\ prog.ret \in {-1, -2, -3} => OutputOrSdkEvents = {}

\* C20 witness: a run with all four outputs asked for, one positional
\* argument and 16 bits, whose input is neither binary nor text ONNX
C20_Witness ==
    /\ pc = "returned"
    /\ prog.ret = -3
    /\ ~env.h /\ ~env.V /\ ~env.p
    /\ env.d = 16
    /\ prog.engine_filename # "" /\ prog.model_filename # ""
    /\ prog.text_filename # "" /\ prog.full_text_filename # ""
    /\ Occurs("ParseFromTextFile")
    /\ InputFailed

\* ------------------------- claims about cuda_driver_api_5_memory_alloc
\* the events that touch the page-locked region
HostRegionUses ==
    {j \in DOMAIN trace : /\ trace[j].call \in {"store", "load", "cuMemsetD32"}
                          /\ trace[j].arg = "host"}

\* C15: cuInit precedes cuCtxCreate, which precedes cuMemAlloc and
\* cuMemAllocHost; the host write, the reads and cuMemsetD32 touch the
\* page-locked region only after cuMemAllocHost handed it out and before
\* cuMemFreeHost; nothing uses the region once it was released
C15_MemoryLifecycleOrder ==
    /\ Precedes("cuInit", "cuCtxCreate")
    /\ Precedes("cuCtxCreate", "cuMemAlloc")
    /\ Precedes("cuCtxCreate", "cuMemAllocHost")
    /\ \A j \in HostRegionUses :
         /\ \E i \in 1 .. (j - 1) : trace[i].call = "cuMemAllocHost" /\ trace[i].ok
         /\ \A i \in 1 .. (j - 1) : trace[i].call # "cuMemFreeHost"
    /\ (prog.kind = "cuda_driver_api_5_memory_alloc"
            /\ pc \in {"store", "cuMemsetD32"}
            /\ prog.host_page_locked_memory # NULL)
        => "host" \in prog.live

\* C15 witness: the function returned after every call succeeded: the region
\* was written, set to 555, read and released
C15_Witness ==
    /\ pc = "done"
    /\ prog.kind = "cuda_driver_api_5_memory_alloc"
    /\ prog.host0 = <<555>>
    /\ "host" \notin prog.live
    /\ Len(trace) = 9
    /\ \A j \in DOMAIN trace : trace[j].ok
    /\ trace[9].call = "cuMemFreeHost"

\* --------------------------------------------- claims about the -t text
\* the positions right after a raw_data key in s
RawDataLiterals(s) ==
    {i + Len(RawDataKey) : i \in {j \in 0 .. Len(s) : MatchAt(s, RawDataKey, j)}}

\* the lines of s that hold a repeated data field
RepeatedDataLines(s) ==
    {k \in DOMAIN GetLines(s) : IsRepeatedDataLine(GetLines(s)[k])}

\* C16: in the text pretty_print_onnx_to_string returns, every raw_data
\* literal, whatever its length, is "..." and no float_data, int32_data or
\* int64_data line carries a value
C16_TextWithoutWeights ==
    (pc = "returned" /\ prog.kind = "pretty_print_onnx_to_string")
        => /\ \A b \in RawDataLiterals(prog.s) :
                MatchAt(prog.s, Ellipsis \o <<Quote>>, b)
           /\ \A k \in RepeatedDataLines(prog.s) :
                LET line == GetLines(prog.s)[k]
                IN  Substr(line, Find(line, <<":">>, 0) + 1,
                           Len(line) - Find(line, <<":">>, 0) - 1)
                        = <<" ">> \o Ellipsis

\* -------------------------------------- claims about the parser's input
\* C21: whatever -O, -F and -m are, the bytes handed to the TensorRT parser
\* are the unmodified contents of the input file
C21_ParserGetsInputFile ==
    \A j \in DOMAIN trace :
        trace[j].call = "parse" => trace[j].arg = InputBytes

\* ---------------------------------------- claims about released resources
\* an acquisition that succeeded has its release called later in the trace
Released(acquire, release) ==
    \A i \in DOMAIN trace :
        (trace[i].call = acquire /\ trace[i].ok)
            => \E j \in (i + 1) .. Len(trace) : trace[j].call = release

\* C22: when cuda_driver_api_5_memory_alloc returns, the device allocation,
\* the page-locked host allocation and the context it acquired each have
\* had their free or destroy call
C22_EverythingReleased ==
    (pc = "done" /\ prog.kind = "cuda_driver_api_5_memory_alloc")
        => /\ Released("cuMemAlloc", "cuMemFree")
           /\ Released("cuMemAllocHost", "cuMemFreeHost")
           /\ Released("cuCtxCreate", "cuCtxDestroy")

\* ------------------------------------------------ claims about the kernel
\* the global position of th is below edge
BelowEdge(th) ==
    /\ th.blockIdx < env.edge
    /\ th.threadIdx + env.blockDim * th.blockIdx < env.edge

\* C23: for every launch configuration and every edge >= 0, a thread that
\* has run wrote output[p], p its global position, exactly if p < edge; the
\* writes are within [0, edge), no two threads wrote the same element, x is
\* as it was, and output is the same whatever the order of the threads
C23_KernelWritesWithinEdge ==
    (pc = "launched" /\ prog.kind = "MySigmoid_kernel_fp32")
        => /\ \A th \in prog.done :
                (\E w \in prog.wrote : w.thread = th) <=> BelowEdge(th)
           /\ \A w \in prog.wrote :
                /\ w.index \in 0 .. (env.edge - 1)
                /\ BelowEdge(w.thread)
                     => w.index = w.thread.threadIdx + env.blockDim * w.thread.blockIdx
           /\ \A v, w \in prog.wrote : v.index = w.index => v = w
           /\ prog.x = [i \in 0 .. (env.edge - 1) |-> i + 1]
           /\ prog.output = [i \in 0 .. (env.edge - 1) |->
                               IF \E w \in prog.wrote : w.index = i
                               THEN sigmoid(prog.x[i]) ELSE << >>]

\* ------------------------------- claims about remove_repeated_data_strings
\* the line contains "float_data:", "int32_data:" or "int64_data:"
HasDataKey(line) ==
    \E key \in {FloatDataKey, Int32DataKey, Int64DataKey} :
        \E i \in 0 .. Len(line) : MatchAt(line, key, i)

\* the line's prefix up to and including its first colon, then " ..."
Summary(line) ==
    LET colon == CHOOSE i \in 1 .. Len(line) :
                    /\ line[i] = ":"
                    /\ \A j \in 1 .. (i - 1) : line[j] # ":"
    IN  [i \in 1 .. colon |-> line[i]] \o <<" ", ".", ".", ".">>

\* the lines the claim lets through: every line without a key, and the
\* first line of every maximal run of lines with a key, as its summary
ExpectedLines(lines) ==
    LET kept == SelectSeq([k \in 1 .. Len(lines) |-> k],
                          LAMBDA k : \/ ~HasDataKey(lines[k])
                                     \/ k = 1
                                     \/ ~HasDataKey(lines[k - 1]))
    IN  [n \in 1 .. Len(kept) |->
            IF HasDataKey(lines[kept[n]]) THEN Summary(lines[kept[n]])
            ELSE lines[kept[n]]]

\* the lines of a text as the claim reads them: the pieces between newlines,
\* a piece after the last newline counting only if it is not empty
RECURSIVE LinesOf(_, _)
LinesOf(t, from) ==
    LET ends == {i \in from .. Len(t) : t[i] = Newline}
        nl == CHOOSE i \in ends : \A j \in ends : i <= j
    IN  IF from > Len(t) THEN << >>
        ELSE IF ends = {} THEN <<[i \in 1 .. (Len(t) - from + 1) |-> t[from + i - 1]]>>
        ELSE <<[i \in 1 .. (nl - from) |-> t[from + i - 1]]>> \o LinesOf(t, nl + 1)

\* C24: remove_repeated_data_strings keeps every line without a data key,
\* unchanged and in order, replaces every maximal run of lines with a data
\* key by one line, the first line's prefix up to its first colon followed
\* by " ...", and applied to its own output returns that output
C24_RepeatedDataRemoved ==
    (prog.kind = "remove_repeated_data_strings" /\ pc \in {"once", "twice"})
        => /\ LinesOf(prog.once, 1) = ExpectedLines(LinesOf(env.text, 1))
           /\ prog.once # << >> => prog.once[Len(prog.once)] = Newline
           /\ pc = "twice" => prog.twice = prog.once

\* C24 witness: a run of a float_data and an int32_data line followed by a
\* line that is no data, the function applied twice
C24_Witness ==
    /\ pc = "twice"
    /\ prog.kind = "remove_repeated_data_strings"
    /\ LinesOf(env.text, 1)
         = <<FloatDataKey \o <<" ", "1">>,
             <<" ", " ">> \o Int32DataKey \o <<" ", "2">>,
             <<"d", "i", "m", "s", ":", " ", "2">>>>
    /\ LinesOf(prog.twice, 1)
         = <<FloatDataKey \o <<" ", ".", ".", ".">>,
             <<"d", "i", "m", "s", ":", " ", "2">>>>
====
